---- MODULE Spec2Model ----
(***************************************************************************)
(* The deepscatter Tile Store Builder scripts: csv_to_parquet.py and       *)
(* duckdb_to_parquet.py (first generation) and v2/scripts/* (second        *)
(* generation, with categorical indexing, default column and fix_tiles).   *)
(*                                                                         *)
(* Text is modelled as a sequence of one-character strings, so that        *)
(* int(), str(), f-strings and sorted() are computed, not assumed.         *)
(***************************************************************************)
EXTENDS Integers, Sequences, FiniteSets, TLC

\* ------------------------------------------------------------------ bounds
\* Most directory entries a tile store of the model holds.
MaxFiles == 5
\* Most directory entries of a store of the metadata model (SpecMeta).
MaxMetaFiles == 2
\* Linker passes run one after the other over the same store.
MaxPass == 2
\* Most rows of a table of the normalizer model (SpecNorm).
MaxRows == 3
\* Most directory entries of a store of the walk model (SpecWalk).
MaxWalkFiles == 3

\* ------------------------------------------------------------------ text
\* An optional value is a sequence: <<>> when absent, <<v>> when present.
None == <<>>

Some(v) == <<v>>

Digits == <<"0", "1", "2", "3", "4", "5", "6", "7", "8", "9">>

IsDigit(c) == \E i \in 1..10 : Digits[i] = c

DigitVal(c) == (CHOOSE i \in 1..10 : Digits[i] = c) - 1

RECURSIVE DigitsVal(_)
DigitsVal(s) ==
  IF s = <<>> THEN 0
  ELSE 10 * DigitsVal(SubSeq(s, 1, Len(s) - 1)) + DigitVal(s[Len(s)])

\* Python int(text): an optional sign and decimal digits; anything else raises
\* ValueError (ok = FALSE).  Surrounding blanks and "_" separators, which
\* int() also accepts, are not in the alphabet of the model.
ParseInt(s) ==
  LET signed == Len(s) > 0 /\ s[1] \in {"-", "+"}
      body   == IF signed THEN Tail(s) ELSE s
      good   == Len(body) > 0 /\ \A i \in 1..Len(body) : IsDigit(body[i])
  IN  IF ~good THEN [ok |-> FALSE, val |-> 0]
      ELSE [ok |-> TRUE,
            val |-> IF signed /\ s[1] = "-" THEN 0 - DigitsVal(body)
                    ELSE DigitsVal(body)]

RECURSIVE NatStr(_)
NatStr(n) ==
  IF n < 10 THEN <<Digits[n + 1]>>
  ELSE NatStr(n \div 10) \o <<Digits[(n % 10) + 1]>>

\* Python str(int).
Str(n) == IF n < 0 THEN <<"-">> \o NatStr(0 - n) ELSE NatStr(n)

\* Python's order on str: by code point, a proper prefix first.
CodePoint(c) ==
  CASE c = "-" -> 45
    [] c = "/" -> 47
    [] IsDigit(c) -> 48 + DigitVal(c)
    [] c = "A" -> 65
    [] c = "B" -> 66
    [] c = "N" -> 78
    [] c = "a" -> 97
    [] c = "e" -> 101
    [] c = "n" -> 110
    [] c = "o" -> 111
    [] OTHER -> 122

RECURSIVE StrLess(_, _)
StrLess(a, b) ==
  IF a = <<>> THEN b # <<>>
  ELSE IF b = <<>> THEN FALSE
  ELSE IF a[1] # b[1] THEN CodePoint(a[1]) < CodePoint(b[1])
  ELSE StrLess(Tail(a), Tail(b))

\* ------------------------------------------------------------------ dicts
\* A Python dict is a sequence of <<key, value>> pairs in insertion order.
Keys(d) == {d[i][1] : i \in 1..Len(d)}

HasKey(d, k) == k \in Keys(d)

DictGet(d, k) == d[CHOOSE i \in 1..Len(d) : d[i][1] = k][2]

\* d[k] = v: an existing key keeps its place, a new key goes last.
DictSet(d, k, v) ==
  IF HasKey(d, k)
  THEN [i \in 1..Len(d) |-> IF d[i][1] = k THEN <<k, v>> ELSE d[i]]
  ELSE Append(d, <<k, v>>)

\* del d[k]
DictDel(d, k) == SelectSeq(d, LAMBDA p : p[1] # k)

\* ------------------------------------------------------------------ JSON
\* The text of a metadata value.  wf: json.loads accepts it.  fmt: "py" is the
\* exact text json.dumps writes for val, "raw" any other spelling of it.
\* val: the parsed value, a dict (kv), a list (items) or null.
JObj(kv) == [t |-> "obj", kv |-> kv, items |-> <<>>]

JArr(items) == [t |-> "arr", kv |-> <<>>, items |-> items]

JNull == [t |-> "null", kv |-> <<>>, items |-> <<>>]

Malformed == [wf |-> FALSE, fmt |-> "raw", val |-> JNull]

RawText(v) == [wf |-> TRUE, fmt |-> "raw", val |-> v]

\* json.dumps(v)
JsonDumps(v) == [wf |-> TRUE, fmt |-> "py", val |-> v]

\* ------------------------------------------------------------------ tile store
\* A directory entry below tiles_dir: its directories, the file name's stem
\* and its suffix.
Entry(dirs, name, ext) == [dirs |-> dirs, name |-> name, ext |-> ext]

\* os.path.join(tiles_dir, str(cz), str(cx), f"{cy}.feather")
TilePath(z, x, y) == Entry(<<Str(z), Str(x)>>, Str(y), "feather")

\* f"{cz}/{cx}/{cy}"
KeyString(z, x, y) == Str(z) \o <<"/">> \o Str(x) \o <<"/">> \o Str(y)

ConfigEntry == Entry(<<>>, <<"c", "o", "n", "f", "i", "g">>, "json")

VARIABLES
  variant,        \* which script runs
  args,           \* the parsed command line
  df,             \* the in-memory table: a sequence of columns
  config_columns, \* the Column Descriptors
  pc,             \* the script's position
  parquet,        \* whether f1_data.parquet has been written
  returncode,     \* the partitioner's exit status, None before it has run
  config_json,    \* tiles/config.json: the manifest, None while not written
  exit_code,      \* the script's own exit status, None while it runs
  out,            \* kinds of message printed so far
  tiles,          \* the tile directory: entry -> file content
  fault,          \* entry -> "ok", "noread" or "nowrite" (what the OS refuses)
  visited,        \* entries os.walk has yielded in this pass
  npass,          \* fix_tiles passes started
  tiles0,         \* history: the directory when the first pass started
  prev,           \* history: the directory as the previous pass left it
  io              \* history: per entry, what this pass did with it

vars == <<variant, args, df, config_columns, pc, parquet, returncode,
          config_json, exit_code, out, tiles, fault, visited, npass, tiles0,
          prev, io>>

pipeVars == <<variant, args, df, config_columns, parquet, returncode,
              config_json>>

\* ------------------------------------------------------------------ numbers
\* A table's numbers are exact fractions n/d, d > 0, in lowest terms.
RECURSIVE Gcd(_, _)
Gcd(a, b) == IF b = 0 THEN a ELSE Gcd(b, a % b)

Abs(n) == IF n < 0 THEN 0 - n ELSE n

Frac(n, d) ==
  LET g == Gcd(Abs(n), Abs(d))
      sgn == IF d < 0 THEN 0 - 1 ELSE 1
  IN  [n |-> sgn * (n \div g), d |-> sgn * (d \div g)]

Whole(n) == [n |-> n, d |-> 1]

RSub(a, b) == Frac(a.n * b.d - b.n * a.d, a.d * b.d)

RDiv(a, b) == Frac(a.n * b.d, a.d * b.n)

RLess(a, b) == a.n * b.d < b.n * a.d

\* ------------------------------------------------------------------ tables
\* A cell: a number, a string or a missing value (NaN / NULL).
Num(n) == [k |-> "num", q |-> Whole(n), s |-> <<>>]

Text(s) == [k |-> "str", q |-> Whole(0), s |-> s]

Missing == [k |-> "na", q |-> Whole(0), s |-> <<>>]

Column(name, type, vals) == [name |-> name, type |-> type, vals |-> vals]

ColNames(t) == {t[i].name : i \in 1..Len(t)}

Col(t, name) == t[CHOOSE i \in 1..Len(t) : t[i].name = name]

Present(vals) == {vals[i].q : i \in {j \in 1..Len(vals) : vals[j].k = "num"}}

\* Series.min() and Series.max(): missing values are skipped.
SeriesMin(vals) == CHOOSE v \in Present(vals) : \A w \in Present(vals) : ~RLess(w, v)

SeriesMax(vals) == CHOOSE v \in Present(vals) : \A w \in Present(vals) : ~RLess(v, w)

\* A numeric cell with its number replaced; other cells are kept.
WithNum(cell, q) == IF cell.k = "num" THEN [cell EXCEPT !.q = q] ELSE cell

SetCol(t, name, vals) ==
  [i \in 1..Len(t) |-> IF t[i].name = name THEN [t[i] EXCEPT !.vals = vals] ELSE t[i]]

\* Series.unique(): the distinct values in order of first appearance; a
\* missing value is one of them.
RECURSIVE Unique(_)
Unique(vals) ==
  IF vals = <<>> THEN <<>>
  ELSE LET init == Unique(SubSeq(vals, 1, Len(vals) - 1))
           last == vals[Len(vals)]
       IN  IF \E i \in 1..Len(init) : init[i] = last THEN init
           ELSE Append(init, last)

\* str(v) of a cell: pandas reads a missing value as NaN, DuckDB hands NULL
\* over as None.  Numbers are stringified only while they are integers.
StrOf(v, source) ==
  CASE v.k = "str" -> v.s
    [] v.k = "num" -> Str(v.q.n)
    [] OTHER -> IF source = "file" THEN <<"n", "a", "n">>
                ELSE <<"N", "o", "n", "e">>

RECURSIVE Insert(_, _)
Insert(sorted, s) ==
  IF sorted = <<>> THEN <<s>>
  ELSE IF StrLess(s, sorted[1]) THEN <<s>> \o sorted
  ELSE <<sorted[1]>> \o Insert(Tail(sorted), s)

\* sorted(list of str)
RECURSIVE Sorted(_)
Sorted(l) ==
  IF l = <<>> THEN <<>>
  ELSE Insert(Sorted(SubSeq(l, 1, Len(l) - 1)), l[Len(l)])

\* ------------------------------------------------------------------ schema
Variants == {"csv1", "duck1", "csv2", "duck2"}

SourceOf(v) == IF v \in {"csv1", "csv2"} THEN "file" ELSE "query"

HasLinker(v) == v \in {"csv2", "duck2"}

\* "Only store if <= 1000 unique values"
MaxStoredCategories == 1000

ArrowNumeric ==
  {"int64", "int32", "int16", "int8", "float64", "float32", "float16"}

SqlNumeric == {"BIGINT", "DOUBLE", "INTEGER", "FLOAT", "DECIMAL", "REAL"}

IsNumeric(type, source) ==
  IF source = "file" THEN type \in ArrowNumeric ELSE type \in SqlNumeric

\* df.rename(columns={args.x: 'x', args.y: 'y'}) and the SELECT ... AS x / y.
FinalName(name, a) ==
  IF name = a.x THEN "x" ELSE IF name = a.y THEN "y" ELSE name

Renamed(t, a) == [i \in 1..Len(t) |-> [t[i] EXCEPT !.name = FinalName(@, a)]]

SeqToSet(q) == {q[i] : i \in 1..Len(q)}

\* "Parse categorical columns" of the file script: the axis names are renamed.
CategoricalColsFile(a) ==
  IF a.categorical = None THEN {}
  ELSE LET given == SeqToSet(a.categorical[1])
           rx == IF a.x \in given THEN (given \ {a.x}) \cup {"x"} ELSE given
       IN  IF a.y \in rx THEN (rx \ {a.y}) \cup {"y"} ELSE rx

\* "Parse categorical columns" of the query script: the names as given.
CategoricalColsQuery(a) ==
  IF a.categorical = None THEN {} ELSE SeqToSet(a.categorical[1])

Descriptor(name, numeric, categorical) ==
  [name |-> name, numeric |-> numeric, categorical |-> categorical,
   min |-> None, max |-> None, categories |-> None, num_categories |-> None]

\* "Add min/max for numeric columns"
WithMinMax(c, vals) ==
  [c EXCEPT !.min = Some(SeriesMin(vals)), !.max = Some(SeriesMax(vals))]

\* "Add unique values for categorical columns (if reasonable size)"
WithCategories(c, vals, source) ==
  LET unique_vals == Unique(vals)
      strs == [i \in 1..Len(unique_vals) |-> StrOf(unique_vals[i], source)]
  IN  [c EXCEPT
         !.categories = IF Len(unique_vals) <= MaxStoredCategories
                        THEN Some(Sorted(strs)) ELSE None,
         !.num_categories = Some(Len(unique_vals))]

WithStats(c, vals, source) ==
  LET c1 == IF c.numeric THEN WithMinMax(c, vals) ELSE c
  IN  IF c1.categorical = Some(TRUE) THEN WithCategories(c1, vals, source)
      ELSE c1

\* The columns list of the first-generation scripts: name and numeric only.
ConfigV1(t, a, source) ==
  [i \in 1..Len(t) |->
     Descriptor(FinalName(t[i].name, a), IsNumeric(t[i].type, source), None)]

\* csv_to_parquet.py (v2): the descriptors, with statistics, of the renamed
\* table before it is normalized.
ConfigCsv2(t, a) ==
  LET r == Renamed(t, a)
  IN  [i \in 1..Len(r) |->
         WithStats(Descriptor(r[i].name, IsNumeric(r[i].type, "file"),
                              Some(r[i].name \in CategoricalColsFile(a))),
                   r[i].vals, "file")]

\* duckdb_to_parquet.py (v2): the descriptors built from the schema rows.
ConfigDuck2(t, a) ==
  [i \in 1..Len(t) |->
     Descriptor(FinalName(t[i].name, a), IsNumeric(t[i].type, "query"),
                Some(t[i].name \in CategoricalColsQuery(a)))]

\* duckdb_to_parquet.py (v2): statistics added after the y axis is inverted.
StatsDuck2(cfg, t) ==
  [i \in 1..Len(cfg) |->
     IF cfg[i].name \in ColNames(t)
     THEN WithStats(cfg[i], Col(t, cfg[i].name).vals, "query")
     ELSE cfg[i]]

\* ------------------------------------------------------------------ normalizer
\* y' = y_max - (y - y_min)
InvertY(t) ==
  LET vals == Col(t, "y").vals
      lo == SeriesMin(vals)
      hi == SeriesMax(vals)
  IN  SetCol(t, "y", [i \in 1..Len(vals) |->
                        WithNum(vals[i], RSub(hi, RSub(vals[i].q, lo)))])

\* x' = (x - x_min) / x_range, 0 when the range is 0
UnitX(t) ==
  LET vals == Col(t, "x").vals
      lo == SeriesMin(vals)
      range == RSub(SeriesMax(vals), lo)
  IN  SetCol(t, "x",
             IF RLess(Whole(0), range)
             THEN [i \in 1..Len(vals) |->
                     WithNum(vals[i], RDiv(RSub(vals[i].q, lo), range))]
             ELSE [i \in 1..Len(vals) |-> Num(0)])

UnitYUnflipped(t) ==
  LET vals == Col(t, "y").vals
      lo == SeriesMin(vals)
      range == RSub(SeriesMax(vals), lo)
  IN  SetCol(t, "y",
             IF RLess(Whole(0), range)
             THEN [i \in 1..Len(vals) |->
                     WithNum(vals[i], RDiv(RSub(vals[i].q, lo), range))]
             ELSE [i \in 1..Len(vals) |-> Num(0)])

\* y' = 1.0 - (y - y_min) / y_range, 0 when the range is 0
UnitY(t) ==
  LET vals == Col(t, "y").vals
      lo == SeriesMin(vals)
      range == RSub(SeriesMax(vals), lo)
  IN  SetCol(t, "y",
             IF RLess(Whole(0), range)
             THEN [i \in 1..Len(vals) |->
                     WithNum(vals[i],
                             RSub(Whole(1), RDiv(RSub(vals[i].q, lo), range)))]
             ELSE [i \in 1..Len(vals) |-> Num(0)])

\* The columns the normalizer indexes: df['x'] and df['y'] raise KeyError
\* when the table has no such column.
AxesRead(v) == IF v = "csv2" THEN {"x", "y"} ELSE {"y"}

Normalized(t, v) == IF v = "csv2" THEN UnitY(UnitX(t)) ELSE InvertY(t)

\* ------------------------------------------------------------------ fix_tiles
\* The nested loops "for dx in [0, 1]: for dy in [0, 1]".
SwappedOffsets == <<<<0, 0>>, <<1, 0>>, <<0, 1>>, <<1, 1>>>>

Offsets == <<<<0, 0>>, <<0, 1>>, <<1, 0>>, <<1, 1>>>>

RECURSIVE Collect(_, _, _, _, _)
Collect(files, z, x, y, i) ==
  IF i > Len(Offsets) THEN <<>>
  ELSE LET cz == z + 1
           cx == x * 2 + Offsets[i][1]
           cy == y * 2 + Offsets[i][2]
           rest == Collect(files, z, x, y, i + 1)
       IN  IF TilePath(cz, cx, cy) \in files
           THEN <<KeyString(cz, cx, cy)>> \o rest
           ELSE rest

\* "Check for children": the child keys whose file exists, in loop order.
ProbeChildren(files, z, x, y) == Collect(files, z, x, y, 1)

\* The key parsed from the path: ok = FALSE where the code says "continue".
ParseKey(e) ==
  LET parts == e.dirs \o <<e.name>>
  IN  IF Len(parts) # 3 THEN [ok |-> FALSE, z |-> 0, x |-> 0, y |-> 0]
      ELSE LET pz == ParseInt(parts[1])
               px == ParseInt(parts[2])
               py == ParseInt(parts[3])
           IN  [ok |-> pz.ok /\ px.ok /\ py.ok,
                z |-> pz.val, x |-> px.val, y |-> py.val]

\* meta_json after "Update json metadata": {} unless a json entry parses.
LoadJson(meta) ==
  IF HasKey(meta, "json") /\ DictGet(meta, "json").wf
  THEN DictGet(meta, "json").val
  ELSE JObj(<<>>)

\* "meta_json['children'] = children" raises TypeError unless meta_json is a
\* dict; "'children' in meta_json" raises it for null, and "del" for a list.
MergeRaises(mj, children) ==
  IF children # <<>> THEN mj.t # "obj"
  ELSE \/ mj.t = "null"
       \/ mj.t = "arr" /\ \E i \in 1..Len(mj.items) : mj.items[i] = "children"

KeepStaleChildren(mj, children) ==
  IF children # <<>> THEN JObj(DictSet(mj.kv, "children", children)) ELSE mj

MergeChildren(mj, children) ==
  IF children # <<>> THEN JObj(DictSet(mj.kv, "children", children))
  ELSE IF mj.t = "obj" THEN JObj(DictDel(mj.kv, "children"))
  ELSE mj

AppendJson(meta, children) ==
  Append(meta, <<"json", JsonDumps(MergeChildren(LoadJson(meta), children))>>)

\* The metadata fix_tiles writes back: every entry kept, json replaced.
FixMeta(meta, children) ==
  DictSet(meta, "json", JsonDumps(MergeChildren(LoadJson(meta), children)))

\* A tile file as the partitioner writes it: metadata, rows, compression.
FileOf(meta) == [meta |-> meta, rows |-> 1, codec |-> "lz4"]

\* A file's metadata and what the OS refuses on it.
Cond(meta, f) == [meta |-> meta, fault |-> f]

\* What a pass has done with an entry so far.
Untouched == [probed |-> FALSE, read |-> 0, written |-> 0]

\* Every file os.walk yields below tiles_dir: the tile files and config.json.
Listing ==
  DOMAIN tiles \cup (IF config_json = None THEN {} ELSE {ConfigEntry})

\* feather.write_feather(new_table, path, compression='uncompressed')
Rewritten(content, meta) ==
  [meta |-> meta, rows |-> content.rows, codec |-> "uncompressed"]

\* The guard "if file.endswith('.feather')" and the two "continue"s.
IsTileFile(e) == e.ext = "feather" /\ ParseKey(e).ok

\* One iteration of "for file in files" (the walk order is the OS's).
Visit(e) ==
  /\ pc = "link"
  /\ e \in Listing \ visited
  /\ visited' = visited \cup {e}
  /\ UNCHANGED <<pipeVars, fault, npass, tiles0, prev>>
  /\ IF ~IsTileFile(e)
     THEN UNCHANGED <<pc, exit_code, out, tiles, io>>
     ELSE
       LET k == ParseKey(e)
           children == ProbeChildren(DOMAIN tiles, k.z, k.x, k.y)
           meta == tiles[e].meta
           mj == LoadJson(meta)
       IN  IF fault[e] = "noread"
           THEN /\ out' = out \cup {"Error reading"}
                /\ io' = [io EXCEPT ![e] = [probed |-> TRUE, read |-> 1,
                                            written |-> 0]]
                /\ UNCHANGED <<pc, exit_code, tiles>>
           ELSE IF MergeRaises(mj, children)
           THEN /\ pc' = "crashed"
                /\ exit_code' = Some(1)
                /\ out' = out \cup {"Traceback"}
                /\ io' = [io EXCEPT ![e] = [probed |-> TRUE, read |-> 1,
                                            written |-> 0]]
                /\ UNCHANGED tiles
           ELSE IF fault[e] = "nowrite"
           THEN /\ out' = out \cup {"Error writing"}
                /\ io' = [io EXCEPT ![e] = [probed |-> TRUE, read |-> 1,
                                            written |-> 0]]
                /\ UNCHANGED <<pc, exit_code, tiles>>
           ELSE /\ tiles' = [tiles EXCEPT
                               ![e] = Rewritten(@, FixMeta(meta, children))]
                /\ io' = [io EXCEPT ![e] = [probed |-> TRUE, read |-> 1,
                                            written |-> @.written + 1]]
                /\ UNCHANGED <<pc, exit_code, out>>

\* The loop body as a function of the directory: the directory it leaves
\* and whether it raised.
VisitOutcome(store, flt, e) ==
  IF ~IsTileFile(e) THEN [store |-> store, raised |-> FALSE]
  ELSE LET k == ParseKey(e)
           children == ProbeChildren(DOMAIN store, k.z, k.x, k.y)
           meta == store[e].meta
       IN  IF flt[e] = "noread" THEN [store |-> store, raised |-> FALSE]
           ELSE IF MergeRaises(LoadJson(meta), children)
           THEN [store |-> store, raised |-> TRUE]
           ELSE IF flt[e] = "nowrite" THEN [store |-> store, raised |-> FALSE]
           ELSE [store |-> [store EXCEPT
                              ![e] = Rewritten(@, FixMeta(meta, children))],
                 raised |-> FALSE]

\* "for file in files" over the entries in a given order, from the i-th on:
\* an exception that is not caught ends the loop.
RECURSIVE PassOver(_, _, _, _)
PassOver(store, flt, order, i) ==
  IF i > Len(order) THEN [store |-> store, raised |-> FALSE]
  ELSE LET o == VisitOutcome(store, flt, order[i])
       IN  IF o.raised THEN o ELSE PassOver(o.store, flt, order, i + 1)

\* fix_tiles returns: print("Tile post-processing complete.")
Finish ==
  /\ pc = "link"
  /\ visited = Listing
  /\ pc' = "done"
  /\ out' = out \cup {"Tile post-processing complete."}
  /\ UNCHANGED <<pipeVars, exit_code, tiles, fault, visited, npass, tiles0,
                 prev, io>>

\* fix_tiles('tiles') called again on the store as the last pass left it.
Relink ==
  /\ pc = "done"
  /\ npass < MaxPass
  /\ pc' = "link"
  /\ npass' = npass + 1
  /\ visited' = {}
  /\ prev' = Some(tiles)
  /\ io' = [e \in Listing |-> Untouched]
  /\ UNCHANGED <<pipeVars, exit_code, out, tiles, fault, tiles0>>

\* The script runs off its end: the interpreter exits with status 0.
Exit ==
  /\ pc \in {"done", "failed"}
  /\ pc' = "exited"
  /\ exit_code' = Some(0)
  /\ UNCHANGED <<pipeVars, out, tiles, fault, visited, npass, tiles0, prev, io>>

\* ------------------------------------------------------------------ the scripts
\* Reading the source, renaming the axis columns and building the column
\* descriptors.  Before this step df holds the source table as stored.
Load ==
  /\ pc = "start"
  /\ df' = Renamed(df, args)
  /\ config_columns' =
       CASE variant = "csv2" -> ConfigCsv2(df, args)
         [] variant = "duck2" -> ConfigDuck2(df, args)
         [] OTHER -> ConfigV1(df, args, SourceOf(variant))
  /\ pc' = "normalize"
  /\ UNCHANGED <<variant, args, parquet, returncode, config_json, exit_code,
                 out, tiles, fault, visited, npass, tiles0, prev, io>>

\* "Invert y-axis" / "Normalize x and y to [0, 1] range"; an axis column
\* the table lacks raises KeyError, which ends the script with status 1.
Normalize ==
  /\ pc = "normalize"
  /\ IF AxesRead(variant) \subseteq ColNames(df)
     THEN /\ df' = Normalized(df, variant)
          /\ config_columns' = IF variant = "duck2"
                               THEN StatsDuck2(config_columns, df')
                               ELSE config_columns
          /\ pc' = "write"
          /\ UNCHANGED <<exit_code, out>>
     ELSE /\ pc' = "crashed"
          /\ exit_code' = Some(1)
          /\ out' = out \cup {"Traceback"}
          /\ UNCHANGED <<df, config_columns>>
  /\ UNCHANGED <<variant, args, parquet, returncode, config_json, tiles,
                 fault, visited, npass, tiles0, prev, io>>

\* pq.write_table(table, 'f1_data.parquet')
WriteParquet ==
  /\ pc = "write"
  /\ parquet' = TRUE
  /\ pc' = "partition"
  /\ UNCHANGED <<variant, args, df, config_columns, returncode, config_json,
                 exit_code, out, tiles, fault, visited, npass, tiles0, prev, io>>

\* The "Normalize x and y to [0, 1] range" block applied once more to the
\* table it produced, its minimum and maximum computed afresh from that table.
Renormalize ==
  /\ pc = "write"
  /\ prev = None
  /\ prev' = Some(df)
  /\ df' = Normalized(df, variant)
  /\ UNCHANGED <<variant, args, config_columns, pc, parquet, returncode,
                 config_json, exit_code, out, tiles, fault, visited, npass,
                 tiles0, io>>

\* subprocess.Popen(quadfeather ...).communicate(): the external tool leaves
\* some tile files and an exit status, whatever the status is.
RunPartitioner(rc, conds) ==
  /\ pc = "partition"
  /\ returncode' = Some(rc)
  /\ tiles' = [e \in DOMAIN conds |-> FileOf(conds[e].meta)]
  /\ fault' = [e \in DOMAIN conds |-> conds[e].fault]
  /\ pc' = "branch"
  /\ UNCHANGED <<variant, args, df, config_columns, parquet, config_json,
                 exit_code, out, visited, npass, tiles0, prev, io>>

\* process.communicate() has returned.
PartitionerRan == returncode # None

AnyReturnCode == returncode # None

\* The else branch of "if process.returncode != 0".
PartitionerOk == returncode = Some(0)

\* "if process.returncode != 0: print(Error executing quadfeather ...)"
ReportFailure ==
  /\ pc = "branch"
  /\ ~PartitionerOk
  /\ out' = out \cup {"Error executing quadfeather"}
  /\ pc' = "failed"
  /\ UNCHANGED <<pipeVars, exit_code, tiles, fault, visited, npass, tiles0,
                 prev, io>>

\* "Rename if it was x or y"
ResolveDefault(a) ==
  LET d == a.default_column[1]
  IN  IF d = a.x THEN "x" ELSE IF d = a.y THEN "y" ELSE d

AcceptAnyDefault(cfg, a) ==
  IF a.default_column = None THEN [set |-> None, warn |-> {}]
  ELSE [set |-> Some(ResolveDefault(a)), warn |-> {}]

\* "Add default column if specified": what is set and what is warned.
DefaultColumn(cfg, a) ==
  IF a.default_column = None THEN [set |-> None, warn |-> {}]
  ELSE LET default_col == ResolveDefault(a)
           hits == {i \in 1..Len(cfg) : cfg[i].name = default_col}
       IN  IF hits = {}
           THEN [set |-> None, warn |-> {"Warning: not found in columns"}]
           ELSE LET col_info == cfg[CHOOSE i \in hits : \A j \in hits : i <= j]
                IN  IF col_info.numeric \/ col_info.categorical = Some(TRUE)
                    THEN [set |-> Some(default_col), warn |-> {}]
                    ELSE [set |-> None,
                          warn |-> {"Warning: not numeric or categorical"}]

\* The else branch: config.json is written; the second generation then
\* calls fix_tiles('tiles').
WriteConfig ==
  /\ pc = "branch"
  /\ PartitionerOk
  /\ LET dc == IF HasLinker(variant) THEN DefaultColumn(config_columns, args)
               ELSE [set |-> None, warn |-> {}]
     IN  /\ config_json' = Some([columns |-> config_columns,
                                 default_column |-> dc.set])
         /\ out' = out \cup dc.warn
  /\ IF HasLinker(variant)
     THEN /\ pc' = "link"
          /\ npass' = 1
          /\ tiles0' = tiles
          /\ io' = [e \in DOMAIN tiles \cup {ConfigEntry} |-> Untouched]
     ELSE /\ pc' = "done"
          /\ UNCHANGED <<npass, tiles0, io>>
  /\ UNCHANGED <<variant, args, df, config_columns, parquet, returncode,
                 exit_code, tiles, fault, visited, prev>>

\* ------------------------------------------------------------------ stores
Extent == <<"extent", <<<<"e">>>>>>

\* Metadata as a partitioner may leave it.
PlainMeta == <<<<"json", RawText(JObj(<<Extent>>))>>>>

StaleMeta ==
  <<<<"pandas", RawText(JNull)>>,
    <<"json", RawText(JObj(<<<<"children", <<KeyString(9, 9, 9)>>>>,
                            Extent>>))>>>>

NoJsonMeta == <<<<"pandas", RawText(JNull)>>>>

BadMeta == <<<<"json", Malformed>>>>

ArrMeta == <<<<"json", RawText(JArr(<<>>))>>>>

ArrChildrenMeta == <<<<"json", RawText(JArr(<<"children">>))>>>>

NullMeta == <<<<"json", RawText(JNull)>>>>

\* The metadata every file of a store of the tree model starts with.
TreeMetas == {PlainMeta, StaleMeta, BadMeta, ArrMeta}

\* Every kind of metadata on a file the OS lets through, and refused files.
AllConds ==
  {Cond(m, "ok") : m \in {<<>>, PlainMeta, StaleMeta, NoJsonMeta, BadMeta,
                          ArrMeta, ArrChildrenMeta, NullMeta}}
    \cup {Cond(StaleMeta, "noread"), Cond(StaleMeta, "nowrite")}

\* The tiles of a quadtree of three levels, and entries that are no tiles.
TreeEntries ==
  {TilePath(0, 0, 0), TilePath(1, 0, 0), TilePath(1, 1, 0), TilePath(1, 0, 1),
   TilePath(1, 1, 1), TilePath(2, 2, 1), TilePath(2, 3, 0),
   Entry(<<<<"a">>, <<"0">>>>, <<"0">>, "feather")}

MetaEntries == {TilePath(0, 0, 0), TilePath(1, 0, 0), TilePath(1, 1, 0)}

Subsets(universe, most) ==
  {T \in SUBSET universe : Cardinality(T) <= most}

\* The script at the call fix_tiles('tiles'), over a given directory.
AtLinker(conds) ==
  LET store == [e \in DOMAIN conds |-> FileOf(conds[e].meta)] IN
  /\ variant = "csv2"
  /\ args = [x |-> "lon", y |-> "lat", categorical |-> None,
             default_column |-> None]
  /\ df = <<>>
  /\ config_columns = <<>>
  /\ parquet = TRUE
  /\ returncode = Some(0)
  /\ config_json = Some([columns |-> <<>>, default_column |-> None])
  /\ exit_code = None
  /\ out = {}
  /\ pc = "link"
  /\ tiles = store
  /\ fault = [e \in DOMAIN conds |-> conds[e].fault]
  /\ visited = {}
  /\ npass = 1
  /\ tiles0 = store
  /\ prev = None
  /\ io = [e \in DOMAIN store \cup {ConfigEntry} |-> Untouched]

InitTree ==
  \E S \in Subsets(TreeEntries, MaxFiles) : \E m \in TreeMetas :
    AtLinker([e \in S |-> Cond(m, "ok")])

InitMeta ==
  \E S \in Subsets(MetaEntries, MaxMetaFiles) : \E conds \in [S -> AllConds] :
    AtLinker(conds)

NextTree ==
  \/ \E e \in TreeEntries \cup {ConfigEntry} : Visit(e)
  \/ Finish
  \/ Exit

NextMeta ==
  \/ \E e \in MetaEntries \cup {ConfigEntry} : Visit(e)
  \/ Finish
  \/ Relink
  \/ Exit

\* Entries os.walk can yield below tiles_dir: two tiles, a path whose level is
\* the text "-1", a path with a segment that is no number, paths of two and
\* of four segments, and a file without the tile suffix.
WalkEntries ==
  {TilePath(0, 0, 0), TilePath(1, 0, 0), TilePath(0 - 1, 0, 0),
   Entry(<<<<"a">>, <<"0">>>>, <<"0">>, "feather"),
   Entry(<<<<"0">>>>, <<"0">>, "feather"),
   Entry(<<<<"0">>, <<"0">>, <<"0">>>>, <<"0">>, "feather"),
   Entry(<<<<"0">>, <<"0">>>>, <<"0">>, "txt")}

InitWalk ==
  \E S \in Subsets(WalkEntries, MaxWalkFiles) :
    \E m \in {PlainMeta, StaleMeta} :
      AtLinker([e \in S |-> Cond(m, "ok")])

NextWalk ==
  \/ \E e \in WalkEntries \cup {ConfigEntry} : Visit(e)
  \/ Finish
  \/ Exit

\* The source tables: which of the columns lon, lat, dev the source has, and
\* what dev holds.
DevData ==
  {<<Text(<<"B">>), Text(<<"A">>)>>, <<Text(<<"A">>), Text(<<"A">>)>>,
   <<Text(<<"B">>), Missing>>}

NumType(source) == IF source = "file" THEN "int64" ELSE "BIGINT"

StrType(source) == IF source = "file" THEN "string" ELSE "VARCHAR"

Tables(source) ==
  {SelectSeq(<<Column("lon", NumType(source), <<Num(0), Num(2)>>),
               Column("lat", NumType(source), <<Num(1), Num(3)>>),
               Column("dev", StrType(source), dev)>>,
             LAMBDA c : c.name \in has) :
     has \in SUBSET {"lon", "lat", "dev"}, dev \in DevData}

CategoricalChoices ==
  {None, Some(<<"dev">>), Some(<<"lon">>), Some(<<"x", "dev">>)}

DefaultChoices == {None, Some("lon"), Some("x"), Some("dev"), Some("zz")}

PipeEntries == {TilePath(0, 0, 0), TilePath(1, 0, 0)}

PipeConds == {Cond(StaleMeta, "ok")}

Init ==
  /\ variant \in Variants
  /\ df \in Tables(SourceOf(variant))
  /\ args \in [x : {"lon"}, y : {"lat"},
               categorical : IF HasLinker(variant) THEN CategoricalChoices
                             ELSE {None},
               default_column : IF HasLinker(variant) THEN DefaultChoices
                                ELSE {None}]
  /\ config_columns = <<>>
  /\ pc = "start"
  /\ parquet = FALSE
  /\ returncode = None
  /\ config_json = None
  /\ exit_code = None
  /\ out = {}
  /\ tiles = <<>>
  /\ fault = <<>>
  /\ visited = {}
  /\ npass = 0
  /\ tiles0 = <<>>
  /\ prev = None
  /\ io = <<>>

Next ==
  \/ Load
  \/ Normalize
  \/ WriteParquet
  \/ \E rc \in {0, 1} : \E S \in SUBSET PipeEntries :
       \E conds \in [S -> PipeConds] : RunPartitioner(rc, conds)
  \/ ReportFailure
  \/ WriteConfig
  \/ \E e \in PipeEntries \cup {ConfigEntry} : Visit(e)
  \/ Finish
  \/ Exit

\* The cells of the tables the normalizer model starts from.
NormCells == {Num(0), Num(1), Num(3), Missing}

\* The value lists of an axis column: at least one number among the rows.
AxisVals(n) == {v \in [1..n -> NormCells] : Present(v) # {}}

\* The file script at "Normalize x and y to [0, 1] range", the renamed table
\* holding the columns x and y.
InitNorm ==
  /\ variant = "csv2"
  /\ \E n \in 1..MaxRows : \E xs \in AxisVals(n) : \E ys \in AxisVals(n) :
       df = <<Column("x", "float64", xs), Column("y", "float64", ys)>>
  /\ args = [x |-> "lon", y |-> "lat", categorical |-> None,
             default_column |-> None]
  /\ config_columns = <<>>
  /\ pc = "normalize"
  /\ parquet = FALSE
  /\ returncode = None
  /\ config_json = None
  /\ exit_code = None
  /\ out = {}
  /\ tiles = <<>>
  /\ fault = <<>>
  /\ visited = {}
  /\ npass = 0
  /\ tiles0 = <<>>
  /\ prev = None
  /\ io = <<>>

NextNorm ==
  \/ Normalize
  \/ Renormalize

\* A run of any of the four scripts, from the command line to the exit.
Spec == Init /\ [][Next]_vars

\* The unit normalizer applied to a table, and once more to its own result.
SpecNorm == InitNorm /\ [][NextNorm]_vars

\* A Linker pass over stores that hold entries of every shape of path.
SpecWalk == InitWalk /\ [][NextWalk]_vars

\* A Linker pass over the stores of a three-level tree.
SpecTree == InitTree /\ [][NextTree]_vars

\* Linker passes over small stores with every kind of metadata and fault.
SpecMeta == InitMeta /\ [][NextMeta]_vars

\* ------------------------------------------------------------------ claims
\* What the claims say of a tile, stated apart from the code's own loop.
TileKeys == {e \in DOMAIN tiles : IsTileFile(e) /\ ParseKey(e).z >= 0
                                  /\ ParseKey(e).x >= 0 /\ ParseKey(e).y >= 0}

\* The document a reader finds in a file's json entry ({} when there is none).
DocOf(store, e) ==
  IF HasKey(store[e].meta, "json") /\ DictGet(store[e].meta, "json").wf
  THEN DictGet(store[e].meta, "json").val
  ELSE JObj(<<>>)

HasChildren(store, e) ==
  DocOf(store, e).t = "obj" /\ HasKey(DocOf(store, e).kv, "children")

ChildrenIn(store, e) == DictGet(DocOf(store, e).kv, "children")

\* The existing children of tile e, as keys, in the order of the offsets.
ExistingChildren(e, order) ==
  LET k == ParseKey(e)
      all == [i \in 1..4 |->
                [path |-> TilePath(k.z + 1, 2 * k.x + order[i][1],
                                   2 * k.y + order[i][2]),
                 key |-> KeyString(k.z + 1, 2 * k.x + order[i][1],
                                   2 * k.y + order[i][2])]]
      there == SelectSeq(all, LAMBDA c : c.path \in DOMAIN tiles)
  IN  [i \in 1..Len(there) |-> there[i].key]

PassReturned == pc \in {"done", "exited"}

NoFaults == \A e \in DOMAIN fault : fault[e] = "ok"

\* C1: after a pass that completed with no read or write error, every tile
\* file's children are exactly the keys of its existing child files, and the
\* children key is absent exactly when it has no existing child.
C1_ChildrenExact ==
  (PassReturned /\ NoFaults) =>
    \A e \in TileKeys :
      LET want == SeqToSet(ExistingChildren(e, Offsets))
      IN  /\ HasChildren(tiles, e) <=> want # {}
          /\ HasChildren(tiles, e) =>
               /\ SeqToSet(ChildrenIn(tiles, e)) = want
               /\ Len(ChildrenIn(tiles, e)) = Cardinality(want)

\* C1 witness: a pass returned over a store where one tile got two children
\* listed and another lost the stale children key it had before.
C1_Witness ==
  /\ PassReturned
  /\ \E e \in TileKeys :
       HasChildren(tiles, e) /\ Len(ChildrenIn(tiles, e)) >= 2
  /\ \E e \in TileKeys :
       HasChildren(tiles0, e) /\ ~HasChildren(tiles, e)

\* C2 as claimed: the list a pass writes names the existing children in the
\* offset order (0,0), (1,0), (0,1), (1,1).
C2_OrderAsClaimed ==
  \A e \in TileKeys :
    (io[e].written > 0 /\ HasChildren(tiles, e)) =>
      ChildrenIn(tiles, e) =
        ExistingChildren(e, <<<<0, 0>>, <<1, 0>>, <<0, 1>>, <<1, 1>>>>)

\* C2 amended: the list a pass writes names the existing children in the
\* offset order (0,0), (0,1), (1,0), (1,1): dx is the outer loop.
C2_OrderOfLoops ==
  \A e \in TileKeys :
    (io[e].written > 0 /\ HasChildren(tiles, e)) =>
      ChildrenIn(tiles, e) =
        ExistingChildren(e, <<<<0, 0>>, <<0, 1>>, <<1, 0>>, <<1, 1>>>>)

\* C2 witness: the root was rewritten with all four of its children, the
\* (0,1) child listed before the (1,0) child.
C2_Witness ==
  /\ TilePath(0, 0, 0) \in DOMAIN tiles
  /\ io[TilePath(0, 0, 0)].written > 0
  /\ HasChildren(tiles, TilePath(0, 0, 0))
  /\ ChildrenIn(tiles, TilePath(0, 0, 0)) =
       <<KeyString(1, 0, 0), KeyString(1, 0, 1), KeyString(1, 1, 0),
         KeyString(1, 1, 1)>>

\* C3: a second pass over the store a first pass left, with the same files,
\* leaves every file (all its metadata entries included) as the first left it.
C3_Idempotent == (npass >= 2) => tiles = prev[1]

\* C3 witness: a second pass returned, having rewritten a file whose metadata
\* the first pass had changed.
C3_Witness ==
  /\ npass = 2
  /\ pc = "done"
  /\ \E e \in TileKeys :
       io[e].written > 0 /\ tiles[e].meta # tiles0[e].meta
                         /\ HasChildren(tiles, e)

\* The axis columns the command line names that the source table lacks.
\* (Load renames them to x and y; no source table of the model has a column
\* called x or y.)
MissingAxes ==
  IF pc = "start" THEN {args.x, args.y} \ ColNames(df)
  ELSE {"x", "y"} \ ColNames(df)

LinkerIdle ==
  /\ npass = 0
  /\ visited = {}
  /\ \A e \in DOMAIN io : io[e] = Untouched

\* C4: after the partitioner failed, config.json is never written, the
\* Linker never runs and the tile files stay as the partitioner left them;
\* a manifest or a Linker pass exists only after the partitioner returned 0.
C4_FailureSkipsRest ==
  /\ [](/\ (PartitionerRan /\ returncode # Some(0)) =>
             (config_json = None /\ LinkerIdle)
        /\ (config_json # None \/ npass > 0) => returncode = Some(0))
  /\ [][(PartitionerRan /\ returncode # Some(0)) =>
          (tiles' = tiles /\ returncode' = returncode)]_vars

\* C4 witness: a second-generation script has ended after a failed
\* partitioner that left tile files behind.
C4_Witness ==
  /\ HasLinker(variant)
  /\ pc = "exited"
  /\ returncode = Some(1)
  /\ DOMAIN tiles # {}
  /\ "Error executing quadfeather" \in out

\* C5 as claimed: the script's exit status is 0 exactly when the run
\* succeeded; after a failed partitioner it is not 0.
C5_ExitCodeAsClaimed ==
  (exit_code # None /\ PartitionerRan /\ returncode # Some(0)) =>
    exit_code # Some(0)

\* C6 as claimed: when the table lacks the x or the y column the run fails
\* before anything is written: no f1_data.parquet, no partitioner run, no
\* manifest, no tile, and no exit with status 0.
C6_MissingAxisAsClaimed ==
  (MissingAxes # {}) =>
    /\ parquet = FALSE
    /\ ~PartitionerRan
    /\ config_json = None
    /\ DOMAIN tiles = {}
    /\ exit_code # Some(0)

\* The metadata a correct pass leaves on tile e of the store it started on.
Healthy(e) == fault[e] = "ok"

RightChildren(e) ==
  LET want == ExistingChildren(e, Offsets)
  IN  IF want = <<>> THEN ~HasChildren(tiles, e)
      ELSE HasChildren(tiles, e) /\ ChildrenIn(tiles, e) = want

\* C7 as claimed: whatever files fail to read or write, the pass runs to
\* completion, every other tile file is rewritten with its right children
\* and the failing files are left as they were.
C7_FaultsAsClaimed ==
  (\E e \in DOMAIN fault : ~Healthy(e)) =>
    /\ pc # "crashed"
    /\ PassReturned =>
         \A e \in TileKeys :
           IF Healthy(e)
           THEN io[e].written = 1 /\ RightChildren(e)
           ELSE tiles[e] = tiles0[e]

\* A json entry that is no well-formed key/value document.
BrokenJson(store, e) ==
  /\ HasKey(store[e].meta, "json")
  /\ \/ ~DictGet(store[e].meta, "json").wf
     \/ DictGet(store[e].meta, "json").val.t # "obj"

\* C8 as claimed: a json entry that does not parse, or parses to something
\* other than a key/value document, never fails the pass: the file is
\* rewritten as from an empty document, and the other files are processed.
C8_BrokenJsonAsClaimed ==
  /\ pc # "crashed"
  /\ PassReturned =>
       \A e \in TileKeys :
         (BrokenJson(tiles0, e) /\ Healthy(e)) =>
           /\ io[e].written = 1
           /\ DocOf(tiles, e).t = "obj"
           /\ RightChildren(e)

\* The descriptor a default column names, by post-rename name.
Eligible(cols, name) ==
  \E i \in 1..Len(cols) :
    /\ cols[i].name = name
    /\ cols[i].numeric \/ cols[i].categorical = Some(TRUE)

PostRename(name) ==
  IF name = args.x THEN "x" ELSE IF name = args.y THEN "y" ELSE name

\* C9: in a written manifest default_column names a numeric or categorical
\* descriptor; a request by the pre-rename axis name resolves to x or y; a
\* request that names no such descriptor is warned about and left unset, and
\* the manifest is written and the Linker runs all the same.
C9_DefaultColumn ==
  /\ (PartitionerOk /\ pc # "branch") => config_json # None
  /\ (config_json # None) =>
    LET m == config_json[1]
        req == args.default_column
    IN  /\ m.default_column # None => Eligible(m.columns, m.default_column[1])
        /\ (req # None /\ Eligible(m.columns, PostRename(req[1]))) =>
             m.default_column = Some(PostRename(req[1]))
        /\ (req # None /\ ~Eligible(m.columns, PostRename(req[1]))) =>
             /\ m.default_column = None
             /\ \E w \in out : w \in {"Warning: not found in columns",
                                      "Warning: not numeric or categorical"}
             /\ HasLinker(variant) => npass >= 1
        /\ req = None => m.default_column = None

\* C9 witness: a manifest was written with default_column x for a request
\* by the pre-rename name, and another run warned and linked all the same.
C9_Witness ==
  /\ config_json # None
  /\ args.default_column = Some("lon")
  /\ config_json[1].default_column = Some("x")
  /\ pc = "exited"

\* C9 witness of the refused request: a column that is neither numeric nor
\* categorical was asked for, warned about, and the Linker ran to the end.
C9_WitnessRefused ==
  /\ config_json # None
  /\ args.default_column = Some("dev")
  /\ config_json[1].default_column = None
  /\ "Warning: not numeric or categorical" \in out
  /\ pc = "exited"
  /\ npass = 1

\* The distinct strings of a column's values, missing values left out.
DistinctStrings(vals, source) ==
  {StrOf(vals[i], source) : i \in {j \in 1..Len(vals) : vals[j].k # "na"}}

IsSortedAsc(l) == \A i \in 1..(Len(l) - 1) : StrLess(l[i], l[i + 1])

\* The states in which the descriptors' statistics describe df as it is:
\* right after they are captured.
StatsCaptured ==
  \/ variant = "csv2" /\ pc = "normalize"
  \/ variant = "duck2" /\ pc = "write"

\* C10 as claimed: num_categories is the number of distinct stringified
\* values, missing values excluded; up to 1000 of them are stored sorted
\* ascending as categories, more are not stored.
C10_CategoriesAsClaimed ==
  StatsCaptured =>
    \A i \in 1..Len(config_columns) :
      LET c == config_columns[i]
          want == DistinctStrings(Col(df, c.name).vals, SourceOf(variant))
      IN  (c.categorical = Some(TRUE)) =>
            /\ c.num_categories = Some(Cardinality(want))
            /\ IF Cardinality(want) <= 1000
               THEN /\ c.categories # None
                    /\ SeqToSet(c.categories[1]) = want
                    /\ Len(c.categories[1]) = Cardinality(want)
                    /\ IsSortedAsc(c.categories[1])
               ELSE c.categories = None

\* An axis column whose numbers are not all the same.
Spread(t, name) ==
  RLess(SeriesMin(Col(t, name).vals), SeriesMax(Col(t, name).vals))

\* The normalizer has been applied a second time, to the table prev[1].
Reapplied == pc = "write" /\ prev # None

\* C11 as claimed: a second application of the unit normalization, with the
\* minimum and maximum computed afresh, is a no-op: every row keeps the x and
\* the y the first application gave it.
C11_SecondPassNoOp == Reapplied => df = prev[1]

\* C11 amended: after one application a non-degenerate axis has minimum 0 and
\* maximum 1; a second application keeps every x, and keeps y only on a
\* degenerate axis: otherwise it turns every y into 1 - y.
C11_SecondPassFlipsY ==
  Reapplied =>
    LET was == prev[1]
        ys == Col(was, "y").vals
    IN  /\ Spread(was, "x") =>
             /\ SeriesMin(Col(was, "x").vals) = Whole(0)
             /\ SeriesMax(Col(was, "x").vals) = Whole(1)
        /\ Spread(was, "y") =>
             /\ SeriesMin(ys) = Whole(0)
             /\ SeriesMax(ys) = Whole(1)
        /\ Col(df, "x") = Col(was, "x")
        /\ Len(Col(df, "y").vals) = Len(ys)
        /\ \A i \in 1..Len(ys) :
             Col(df, "y").vals[i] =
               IF Spread(was, "y") /\ ys[i].k = "num"
               THEN [ys[i] EXCEPT !.q = RSub(Whole(1), ys[i].q)]
               ELSE ys[i]

\* C11 witness: the normalizer was applied twice to a table with both axes
\* non-degenerate; a row kept its x of 1/3 and its y went from 2/3 to 1/3.
C11_Witness ==
  /\ Reapplied
  /\ Spread(prev[1], "x")
  /\ \E i \in 1..Len(Col(df, "y").vals) :
       /\ Col(prev[1], "x").vals[i].q = Frac(1, 3)
       /\ Col(df, "x").vals[i].q = Frac(1, 3)
       /\ Col(prev[1], "y").vals[i].q = Frac(2, 3)
       /\ Col(df, "y").vals[i].q = Frac(1, 3)

\* The store as it was when the pass now running (or last run) started.
PassStart == IF prev = None THEN tiles0 ELSE prev[1]

\* C12 as claimed: a pass creates, deletes and renames no file and changes
\* no row data; a valid tile file is rewritten at most once; an entry that
\* is no tile file (config.json included) is left untouched.
C12_FrameAsClaimed ==
  (npass >= 1) =>
    /\ DOMAIN tiles = DOMAIN PassStart
    /\ \A e \in DOMAIN tiles : tiles[e].rows = PassStart[e].rows
    /\ \A e \in TileKeys : io[e].written <= 1
    /\ \A e \in DOMAIN tiles \ TileKeys :
         tiles[e] = PassStart[e] /\ io[e] = Untouched
    /\ io[ConfigEntry] = Untouched

\* What does hold of C12: the same frame, with "tile file" read as the code
\* reads it (three segments that int() accepts, a negative one included).
C12_FrameOfParsedKeys ==
  (npass >= 1) =>
    /\ DOMAIN tiles = DOMAIN PassStart
    /\ \A e \in DOMAIN tiles :
         /\ tiles[e].rows = PassStart[e].rows
         /\ io[e].written <= 1
         /\ ~IsTileFile(e) => (tiles[e] = PassStart[e] /\ io[e] = Untouched)
    /\ io[ConfigEntry] = Untouched

\* A path segment that is a non-negative integer: decimal digits only.
NaturalSegment(s) == Len(s) > 0 /\ \A i \in 1..Len(s) : IsDigit(s[i])

\* An entry with the tile suffix whose path is three non-negative integers.
KeyedTile(e) ==
  /\ e.ext = "feather"
  /\ Len(e.dirs) = 2
  /\ \A i \in 1..2 : NaturalSegment(e.dirs[i])
  /\ NaturalSegment(e.name)

\* C14 as claimed: an entry with the tile suffix whose path is not three
\* non-negative integers (too few or too many segments, a segment that is no
\* integer, a negative segment) is skipped without error: no child is probed
\* for it, it is neither read nor rewritten, and the pass goes on.
C14_SkipsAsClaimed ==
  /\ pc # "crashed"
  /\ \A e \in DOMAIN tiles :
       (e.ext = "feather" /\ ~KeyedTile(e)) =>
         (io[e] = Untouched /\ tiles[e] = PassStart[e])

\* What does hold of C14: the entries int() refuses, or of another number of
\* segments than three, are skipped.
C14_SkipsUnparsed ==
  /\ pc # "crashed"
  /\ \A e \in DOMAIN tiles :
       (e.ext = "feather" /\ ~ParseKey(e).ok) =>
         (io[e] = Untouched /\ tiles[e] = PassStart[e])

\* The orders in which a walk can yield the files of a set.
Orders(S) ==
  {o \in [1..Cardinality(S) -> S] :
     \A i, j \in 1..Cardinality(S) : o[i] = o[j] => i = j}

\* A pass has ended, by returning or by an exception.
PassEnded == pc \in {"done", "exited", "crashed"}

\* C13 as claimed: with the same files failing to read or write, a pass
\* leaves the same metadata on every file whatever the order of the visits:
\* the directory this pass left is the one a pass in any other order leaves.
C13_OrderFreeAsClaimed ==
  PassEnded =>
    \A o \in Orders(DOMAIN PassStart) :
      PassOver(PassStart, fault, o, 1).store = tiles

\* What does hold of C13: a pass that returned left what a pass in any order
\* leaves, and a pass that raised left what a pass in some order leaves.
C13_OrderFreeUnlessRaised ==
  /\ PassReturned =>
       \A o \in Orders(DOMAIN PassStart) :
         PassOver(PassStart, fault, o, 1) = [store |-> tiles, raised |-> FALSE]
  /\ pc = "crashed" =>
       \E o \in Orders(DOMAIN PassStart) :
         PassOver(PassStart, fault, o, 1) = [store |-> tiles, raised |-> TRUE]

\* The names of the --categorical list as the caller gave them.
Listed == IF args.categorical = None THEN {} ELSE SeqToSet(args.categorical[1])

\* The name a descriptor's column had in the source.
SourceName(name) ==
  IF name = "x" THEN args.x ELSE IF name = "y" THEN args.y ELSE name

\* The second-generation script has built its column descriptors.
Described == HasLinker(variant) /\ pc # "start"

\* C15 as claimed: in both second-generation scripts a descriptor is
\* categorical exactly when its name, the post-rename name x or y for an
\* axis column, is in the --categorical list, numeric or not.
C15_CategoricalAsClaimed ==
  Described =>
    \A i \in 1..Len(config_columns) :
      config_columns[i].categorical = Some(config_columns[i].name \in Listed)

\* What does hold of C15: the query script matches every column by the name
\* it has in the source, the file script an axis column by either name.
C15_CategoricalAsCoded ==
  Described =>
    \A i \in 1..Len(config_columns) :
      LET c == config_columns[i]
      IN  c.categorical =
            Some(IF variant = "duck2" THEN SourceName(c.name) \in Listed
                 ELSE c.name \in Listed \/ SourceName(c.name) \in Listed)

====
